---- MODULE Spec2Model ----
(***************************************************************************)
(* Tile-based raster viewer of the climate data research platform:         *)
(* RasterMapViewer (frontend/components/raster-map-viewer.tsx) with its     *)
(* TileAPIClient and the backend() fetch helper (lib/fetch).               *)
(*                                                                         *)
(* The viewer is a React function component.  Its state is the useState    *)
(* cells (metadata, selectedVariable, currentTimeIndex, loadedTiles,       *)
(* loadingTiles, errorTiles), the useRef cells (tileCache) and the values  *)
(* captured by the memoised loadTile callback.  Functional state updates   *)
(* (setX(prev => ...)) are applied in order, so each handler is one step.  *)
(***************************************************************************)
EXTENDS Integers, FiniteSets, Sequences, TLC

\* ------------------------------------------------------------------ bounds
MaxRequests == 2       \* network requests for tiles issued in one behaviour
MaxZoom == 2
MaxCalls == 2          \* processFiles calls in one behaviour           \* zoom levels 0 .. MaxZoom are given to calculateTileGrid

\* ------------------------------------------------------- program constants
TTL == 300000          \* "Cache for 5 minutes": Date.now() - timestamp < 300000

DefaultTime == 24      \* dimensions.time of the hardcoded metadata
TileSize == 256        \* the loops of renderTileToCanvas: i < 256, j < 256

\* ----------------------------------------------------------- input domains
NoToken == "none"
Tokens == {NoToken, "tok"}
Files == {"a.nc", "b.nc"}
\* the variables of the dataset (one, as in a single-variable file)
Variables == {"pr"}
TimeIndices == {0, 1}
\* tile coordinates <<z, x, y>> that Leaflet asks the grid layer for
Coords == {<<2, 1, 1>>}
\* the instants Date.now() is observed at: the start, and just before, at and
\* just past one TTL later
ClockTimes == {0, TTL - 1, TTL, TTL + 1}

\* viewport bounds in whole degrees: the edges, the centre and points between
Longitudes == {-180, -100, -1, 0, 90, 179, 180}
Latitudes == {-90, -45, 0, 60, 90}
ViewportBounds == [north : Latitudes, south : Latitudes,
                   east : Longitudes, west : Longitudes]

\* cell values and the statistics {min, max} of a variable, the last with
\* max = min; the names of the colour select; the steps of the opacity slider
Values == {-5, 0, 1, 3, 5, 7, 10, 12}
Statistics == {[min |-> 0, max |-> 10], [min |-> -5, max |-> 5],
               [min |-> 3, max |-> 3]}
ColorScales == {"precipitation", "viridis", "plasma"}
Opacities == {10 * i : i \in 1 .. 10}

\* Tile matrices, given by their shape: `rows` rows of `cols` cells, each of
\* value `value`; a matrix of fewer than 256 rows or cells lacks the others.
\* NoMatrix is a payload without a tile matrix.
TileMatrices == [rows : {3, TileSize}, cols : {200, TileSize}, value : {7}]
NoMatrix == [rows |-> -1, cols |-> -1, value |-> 0]

\* The lists of files the user drops on, or selects in, the upload section
UploadLists == {<<"x.csv">>, <<"y.nc">>, <<"z.txt">>, <<"x.csv", "y.nc">>,
                <<"z.txt", "x.csv">>}

\* The list of files the server answers GET /data/list with
ServerList == <<"a.nc", "b.nc", "c.csv">>

\* The datasets the dashboard can hand to the canvas viewer as its data prop:
\* a file and its dimensions.time
Datasets == [name : Files, time : {1, 3, 5, DefaultTime}]

\* dimensions.time of the metadata the server answers with
ServerTime == 3

\* the access tokens the login endpoint issues
AccessTokens == {"tok", "tok2"}

\* what the tile server can answer to one request
Responses == {"ok_valid", "ok_wrong_shape", "ok_not_json",
              "http_500", "http_401", "network_error"}

\* getTileKey: `${variable}-${timeIndex}-${z}-${x}-${y}`, kept as the
\* sequence of the five joined fields
getTileKey(x, y, z, variable, timeIndex) == <<variable, timeIndex, z, x, y>>

Keys == {getTileKey(c[2], c[3], c[1], v, t) :
            v \in Variables, t \in TimeIndices, c \in Coords}

NoEntry == [timestamp |-> -1, data |-> "none", file |-> "none"]
\* The canvas of a tile: "none" while the layer has no canvas for it, "blank"
\* while the promise of loadTile is pending (awaits: its request), then
\* "rendered", "loading" (the grey Loading... tile) or "error" (the red one)
NoTile == [status |-> "none", awaits |-> <<>>]
Drawn(status) == [status |-> status, awaits |-> <<>>]

NoCall == [op |-> "none", key |-> <<>>, outcome |-> "none", ret |-> NoEntry,
           age |-> -1, resp |-> "none"]

VARIABLES
    token,                \* localStorage "auth_token"
    location,             \* window.location.href
    page,                 \* the document that is loaded: "dashboard" or "login"
    filename,             \* the filename prop of the viewer
    metadata,             \* useState metadata: "null", "default", "server"
    metaPhase,            \* metadata promise chain: "first", "retry", "done"
    selectedVariable,     \* useState selectedVariable
    currentTimeIndex,     \* useState currentTimeIndex
    mapReady,             \* mapInstanceRef.current is set (initMap has finished)
    layerOn,              \* tileLayerRef.current is set
    toCreate,             \* createTile calls the grid layer still has to make
    display,              \* what the canvas of each tile of the layer shows
    tileCache,            \* useRef Map tileKey -> TileData
    loadedTiles,          \* useState Set
    loadingTiles,         \* useState Set
    errorTiles,           \* useState Set
    closureLoadingTiles,  \* the loadingTiles value captured by loadTile
    inflight,             \* tile requests sent and not settled: <<key, file>> -> count
    issued,               \* tile requests sent so far
    now,                  \* Date.now()
    last,                 \* the last loadTile call or settled request
    isPlaying,            \* useState isPlaying
    timers,               \* the setInterval timers that are not cleared
    input,                \* the arguments of the last call of a pure function
    output,               \* what that call returned
    data,                 \* the data prop of the canvas viewer: its dataset
    processedFiles,       \* the dashboard's list of files, by name
    selectedFile,         \* the name of the selected file, or "null"
    error,                \* the dashboard's error message, or "null"
    listPhase,            \* "loading" until the request for the list settled
    removals,             \* DELETE requests in flight, each with the list
                          \* its handleRemoveFile call captured
    cleared,              \* the files the server has deleted
    uploadedFiles,        \* the upload list: entries [name, status]
    calls,                \* processFiles calls waiting for the answer to the
                          \* POST of their first remaining file
    completions,          \* setTimeout callbacks that have not run yet
    posted,               \* the names of the files POSTed to the backend
    nCalls                \* the number of processFiles calls made

vars == <<token, location, page, filename, metadata, metaPhase,
          selectedVariable, currentTimeIndex, mapReady, layerOn,
          toCreate, display, tileCache,
          loadedTiles, loadingTiles, errorTiles, closureLoadingTiles,
          inflight, issued, now, last, isPlaying, timers, input, output,
          data, processedFiles, selectedFile, error, listPhase, removals,
          cleared, uploadedFiles, calls, completions, posted, nCalls>>

metaVars == <<metadata, metaPhase>>
viewVars == <<selectedVariable, currentTimeIndex>>
layerVars == <<mapReady, layerOn, toCreate, display>>
authVars == <<token, location, page>>
tileSets == <<loadedTiles, loadingTiles, errorTiles>>
clockVars == <<now>>
playVars == <<isPlaying, timers>>
fileVars == <<processedFiles, selectedFile, error, listPhase, removals, cleared>>
uploadVars == <<uploadedFiles, calls, completions, posted, nCalls>>
dashVars == <<data, fileVars, uploadVars>>
pureVars == <<input, output>>
viewerVars == <<token, location, page, filename, metadata, metaPhase,
                selectedVariable, currentTimeIndex, mapReady, layerOn,
                toCreate, display, tileCache,
                loadedTiles, loadingTiles, errorTiles, closureLoadingTiles,
                inflight, issued, now, last, isPlaying, timers, dashVars>>

Requests == Keys \X Files

\* the number of unsettled network requests for key k
InFlightCount(k) ==
    LET RECURSIVE Sum(_)
        Sum(S) == IF S = {} THEN 0
                  ELSE LET r == CHOOSE r \in S : TRUE
                       IN inflight[r] + Sum(S \ {r})
    IN Sum({r \in Requests : r[1] = k})

\* ------------------------------------------------------------ pure functions
Max(a, b) == IF a >= b THEN a ELSE b
Min(a, b) == IF a <= b THEN a ELSE b
\* Math.floor and Math.ceil of the quotient a / b, b > 0
Floor(a, b) == a \div b
Ceil(a, b) == -((-a) \div b)

\* (mutant) the upper end of a tile range is not clamped
ClampHigh_None(tilesPerRow, end) == end

\* Math.min(tilesPerRow - 1, endX): the upper end of a tile range
ClampHigh(tilesPerRow, end) == Min(tilesPerRow - 1, end)

\* calculateTileGrid: the tiles {x, y, z} in the order the loops push them
calculateTileGrid(bounds, zoom) ==
    LET tilesPerRow == 2 ^ zoom
        startX == Floor((bounds.west + 180) * tilesPerRow, 360)
        endX == Ceil((bounds.east + 180) * tilesPerRow, 360)
        startY == Floor((90 - bounds.north) * tilesPerRow, 180)
        endY == Ceil((90 - bounds.south) * tilesPerRow, 180)
        x0 == Max(0, startX)
        y0 == Max(0, startY)
        nx == Max(0, ClampHigh(tilesPerRow, endX) - x0 + 1)
        ny == Max(0, ClampHigh(tilesPerRow, endY) - y0 + 1)
    IN [i \in 1 .. nx * ny |->
          [x |-> x0 + ((i - 1) \div ny), y |-> y0 + ((i - 1) % ny), z |-> zoom]]

\* A JavaScript number that the colour code computes: not-a-number, or the
\* integer v.  A quotient is kept as numerator n over denominator d > 0.
NaN == [nan |-> TRUE, v |-> 0]
Num(v) == [nan |-> FALSE, v |-> v]

\* Math.round of the quotient p / q, q > 0: the nearest integer, halves up
Round(p, q) == Floor(2 * p + q, 2 * q)

\* Math.max(0, Math.min(1, (value - min) / (max - min))).  With max = min the
\* quotient is 0 / 0 = NaN for value = min, which Math.min and Math.max hand
\* on, and plus or minus Infinity otherwise, which they clamp to 1 or 0.
Normalize(value, min, max) ==
    LET n == IF max > min THEN value - min ELSE min - value
        d == IF max > min THEN max - min ELSE min - max
    IN IF d = 0
       THEN IF value = min THEN [nan |-> TRUE, n |-> 0, d |-> 1]
            ELSE IF value > min THEN [nan |-> FALSE, n |-> 1, d |-> 1]
            ELSE [nan |-> FALSE, n |-> 0, d |-> 1]
       ELSE IF n <= 0 THEN [nan |-> FALSE, n |-> 0, d |-> 1]
       ELSE IF n >= d THEN [nan |-> FALSE, n |-> 1, d |-> 1]
       ELSE [nan |-> FALSE, n |-> n, d |-> d]

\* (mutant) the two ends of the interpolation are exchanged
Lerp_Swapped(a, b, tn, td) == Num(Round(b * (td - tn) + a * tn, td))

\* Math.round(a * (1 - t) + b * t), also written Math.round(a + (b - a) * t),
\* for t = tn / td
Lerp(a, b, tn, td) == Num(Round(a * (td - tn) + b * tn, td))

\* getColor of renderTileToCanvas: [r, g, b] for a cell value
getColor(value, stats, colorScale) ==
    LET normalized == Normalize(value, stats.min, stats.max)
        n == normalized.n
        d == normalized.d
    IN IF colorScale = "precipitation"
       THEN IF normalized.nan
            THEN \* no comparison with NaN holds: the last branch, t = NaN
                 <<NaN, Num(255), NaN>>
            ELSE IF 10 * n < 3 * d       \* normalized < 0.3, t = normalized / 0.3
            THEN <<Lerp(255, 100, 10 * n, 3 * d),
                   Lerp(255, 200, 10 * n, 3 * d),
                   Num(255)>>
            ELSE IF 10 * n < 7 * d       \* t = (normalized - 0.3) / 0.4
            THEN <<Lerp(100, 50, 10 * n - 3 * d, 4 * d),
                   Lerp(200, 255, 10 * n - 3 * d, 4 * d),
                   Lerp(255, 50, 10 * n - 3 * d, 4 * d)>>
            ELSE                         \* t = (normalized - 0.7) / 0.3
                 <<Lerp(50, 255, 10 * n - 7 * d, 3 * d),
                   Num(255),
                   Lerp(50, 0, 10 * n - 7 * d, 3 * d)>>
       ELSE IF normalized.nan
       THEN <<NaN, NaN, NaN>>
       ELSE IF colorScale = "viridis"
       THEN <<Lerp(68, 253, n, d), Lerp(1, 231, n, d), Lerp(84, 37, n, d)>>
       ELSE <<Lerp(13, 240, n, d), Lerp(8, 249, n, d), Lerp(135, 33, n, d)>>

\* The control points of getColor, as its branches imply them: position (in
\* hundredths) and colour.
getColorStops(colorScale) ==
    IF colorScale = "precipitation"
    THEN << <<0, <<255, 255, 255>>>>, <<30, <<100, 200, 255>>>>,
            <<70, <<50, 255, 50>>>>, <<100, <<255, 255, 0>>>> >>
    ELSE IF colorScale = "viridis"
    THEN << <<0, <<68, 1, 84>>>>, <<100, <<253, 231, 37>>>> >>
    ELSE << <<0, <<13, 8, 135>>>>, <<100, <<240, 249, 33>>>> >>

\* getColorScales of the canvas viewer: the control points [position, colour]
\* of each named scale, positions in hundredths; an unknown name gets viridis
getColorScales(colorScale) ==
    IF colorScale = "plasma"
    THEN << <<0, <<13, 8, 135>>>>, <<25, <<126, 3, 168>>>>,
            <<50, <<203, 70, 121>>>>, <<75, <<248, 149, 64>>>>,
            <<100, <<240, 249, 33>>>> >>
    ELSE IF colorScale = "blues"
    THEN << <<0, <<247, 251, 255>>>>, <<25, <<198, 219, 239>>>>,
            <<50, <<107, 174, 214>>>>, <<75, <<49, 130, 189>>>>,
            <<100, <<8, 81, 156>>>> >>
    ELSE IF colorScale = "precipitation"
    THEN << <<0, <<255, 255, 255>>>>, <<20, <<199, 233, 180>>>>,
            <<40, <<127, 205, 187>>>>, <<60, <<65, 182, 196>>>>,
            <<80, <<29, 145, 192>>>>, <<100, <<34, 94, 168>>>> >>
    ELSE << <<0, <<68, 1, 84>>>>, <<25, <<59, 82, 139>>>>,
            <<50, <<33, 145, 140>>>>, <<75, <<94, 201, 98>>>>,
            <<100, <<253, 231, 37>>>> >>

\* interpolateColor of the canvas viewer: the first pair of neighbouring
\* control points that brackets the normalized value, or the first and the
\* last control point when no pair does (the value is NaN)
interpolateColor(value, min, max, colorScale) ==
    LET scale == getColorScales(colorScale)
        normalized == Normalize(value, min, max)
        n == normalized.n
        d == normalized.d
        found == {i \in 1 .. Len(scale) - 1 :
                    /\ ~normalized.nan
                    /\ 100 * n >= scale[i][1] * d
                    /\ 100 * n <= scale[i + 1][1] * d}
        lowerIndex == IF found = {} THEN 1
                      ELSE CHOOSE i \in found : \A j \in found : i <= j
        upperIndex == IF found = {} THEN Len(scale) ELSE lowerIndex + 1
        lower == scale[lowerIndex]
        upper == scale[upperIndex]
        \* t = (normalized - lower[0]) / (upper[0] - lower[0])
        tn == 100 * n - lower[1] * d
        td == (upper[1] - lower[1]) * d
    IN IF normalized.nan THEN <<NaN, NaN, NaN>>
       ELSE IF upperIndex = lowerIndex
       THEN <<Num(lower[2][1]), Num(lower[2][2]), Num(lower[2][3])>>
       ELSE <<Lerp(lower[2][1], upper[2][1], tn, td),
              Lerp(lower[2][2], upper[2][2], tn, td),
              Lerp(lower[2][3], upper[2][3], tn, td)>>

\* what a Uint8ClampedArray stores for a number: NaN becomes 0
ToUint8Clamped(c) == IF c.nan THEN 0 ELSE Max(0, Min(255, c.v))

\* (mutant) the alpha byte is truncated
Alpha_Truncated(opacity) == Floor(opacity * 255, 100)

\* Math.round((opacity[0] / 100) * 255)
Alpha(opacity) == Round(opacity * 255, 100)

\* the four bytes renderTileToCanvas writes for one cell
renderPixel(value, stats, colorScale, opacity) ==
    LET rgb == getColor(value, stats, colorScale)
    IN <<ToUint8Clamped(rgb[1]), ToUint8Clamped(rgb[2]), ToUint8Clamped(rgb[3]),
         ToUint8Clamped(Num(Alpha(opacity)))>>

\* tileData.tile[i]?.[j]: the cell, or undefined where the row or the cell is
\* missing
Cell(tile, i, j) ==
    IF i < tile.rows /\ j < tile.cols
    THEN [defined |-> TRUE, v |-> tile.value]
    ELSE [defined |-> FALSE, v |-> 0]

\* (mutant) a missing cell is given the value of the cells that are present
OrZero_Fills(cell) == 7

\* cell ?? 0
OrZero(cell) == IF cell.defined THEN cell.v ELSE 0

\* renderTileToCanvas: the pixels of the image, in the order of idx / 4; the
\* call throws a TypeError when tileData has no tile matrix
renderTileToCanvas(tile, stats, colorScale, opacity) ==
    IF tile = NoMatrix
    THEN [threw |-> TRUE, pixels |-> <<>>]
    ELSE [threw |-> FALSE,
          pixels |-> [idx \in 1 .. TileSize * TileSize |->
                        LET i == (idx - 1) \div TileSize
                            j == (idx - 1) % TileSize
                            cell == Cell(tile, i, j)
                            value == OrZero(cell)
                        IN renderPixel(value, stats, colorScale, opacity)]]

\* ------------------------------------------------------------------ backend
\* (mutant) the login page leaves the stored token in place
RemoveItem_Keeps(tok) == tok

\* localStorage.removeItem("auth_token")
RemoveItem(tok) == NoToken

\* (mutant) the request goes out without the header
Authorization_Missing(tok) == <<>>

\* headers["Authorization"] = `Bearer ${token}`
Authorization(tok) == <<"Bearer", tok>>

\* backend(): what the helper returns for one server answer, and the
\* Authorization header of the request it sent.
\*   no token            -> returns undefined, nothing is sent
\*   fetch() rejects     -> the exception is rethrown
\*   401                 -> redirect to /login, {data: null, ok: false, status: null}
\*   otherwise           -> {data: json or the Response, ok: response.ok, status}
backend(tok, resp) ==
    IF tok = NoToken
    THEN [sent |-> FALSE, threw |-> FALSE, defined |-> FALSE, ok |-> FALSE,
          data |-> "none", redirect |-> FALSE,
          authorization |-> <<>>]
    ELSE IF resp = "network_error"
    THEN [sent |-> TRUE, threw |-> TRUE, defined |-> FALSE, ok |-> FALSE,
          data |-> "none", redirect |-> FALSE,
          authorization |-> Authorization(tok)]
    ELSE IF resp = "http_401"
    THEN [sent |-> TRUE, threw |-> FALSE, defined |-> TRUE, ok |-> FALSE,
          data |-> "null", redirect |-> TRUE,
          authorization |-> Authorization(tok)]
    ELSE IF resp = "http_500"
    THEN [sent |-> TRUE, threw |-> FALSE, defined |-> TRUE, ok |-> FALSE,
          data |-> "error_body", redirect |-> FALSE,
          authorization |-> Authorization(tok)]
    ELSE IF resp = "ok_valid"
    THEN [sent |-> TRUE, threw |-> FALSE, defined |-> TRUE, ok |-> TRUE,
          data |-> "payload", redirect |-> FALSE,
          authorization |-> Authorization(tok)]
    ELSE IF resp = "ok_wrong_shape"
    THEN [sent |-> TRUE, threw |-> FALSE, defined |-> TRUE, ok |-> TRUE,
          data |-> "json_wrong_shape", redirect |-> FALSE,
          authorization |-> Authorization(tok)]
    ELSE \* "ok_not_json": response.json() rejects, .catch(() => response)
         [sent |-> TRUE, threw |-> FALSE, defined |-> TRUE, ok |-> TRUE,
          data |-> "response_object", redirect |-> FALSE,
          authorization |-> Authorization(tok)]

\* TileAPIClient.fetchTile: throws unless response?.ok, else returns response.data
fetchTile(tok, resp) ==
    LET response == backend(tok, resp)
    IN IF response.threw \/ ~response.defined \/ ~response.ok
       THEN [threw |-> TRUE, data |-> "none"]
       ELSE [threw |-> FALSE, data |-> response.data]

\* TileAPIClient.fetchMetadata: the hardcoded metadata unless response?.ok,
\* else response.data; an exception of backend() propagates
fetchMetadata(tok, resp) ==
    LET response == backend(tok, resp)
    IN IF response.threw
       THEN [threw |-> TRUE, value |-> "none"]
       ELSE IF ~response.defined \/ ~response.ok
       THEN [threw |-> FALSE, value |-> "default"]
       ELSE [threw |-> FALSE,
             value |-> IF response.data = "payload" THEN "server" ELSE "malformed"]

\* the viewer renders its controls and map only with metadata it can read
Usable(m) == m \in {"default", "server"}

\* metadata.dimensions.time of metadata the viewer can read
dimensionsTime(m) == IF m = "server" THEN ServerTime ELSE DefaultTime

\* (mutant) the index stops at the last time step
NextTimeIndex_Clamps(prev, time) == IF prev + 1 < time THEN prev + 1 ELSE prev

\* the update of the interval callback: prev => (prev + 1) % metadata.dimensions.time
NextTimeIndex(prev, time) == (prev + 1) % time

\* (mutant) the cleanup of the animation effect leaves the interval running
ClearInterval_Leaks(ts) == ts

\* the cleanup of the animation effect: if (interval) clearInterval(interval)
ClearInterval(ts) == {}

\* (mutant) the cached tile is returned whatever its age
Fresh_NeverStale(entry, t) == t - entry.timestamp >= 0

\* Date.now() - cached.timestamp < 300000 for an entry that is present
Fresh(entry, t) == t - entry.timestamp < TTL

\* (mutant) a hit touches the entry: it is returned with a new timestamp
CacheLookup_Touches(k, t) ==
    IF tileCache[k] # NoEntry /\ Fresh(tileCache[k], t)
    THEN [tileCache[k] EXCEPT !.timestamp = t + 1] ELSE NoEntry

\* the cache check at the head of loadTile: the entry to return, or NoEntry
CacheLookup(k, t) ==
    IF tileCache[k] # NoEntry /\ Fresh(tileCache[k], t) THEN tileCache[k] ELSE NoEntry

\* "Skip if already loading": the test loadTile makes on the set it captured
AlreadyLoading(k) == k \in closureLoadingTiles

\* (mutant) the new set is built from the key alone: new Set([tileKey])
AddKey_DropsPrev(prev, k) == {k}

\* (mutant) the key is not deleted from the set
DeleteKey_Keeps(prev, k) == prev

\* the functional state updates of loadTile:
\*   prev => new Set([...prev, tileKey])
AddKey(prev, k) == prev \cup {k}
\*   prev => { const newSet = new Set(prev); newSet.delete(tileKey); return newSet }
DeleteKey(prev, k) == prev \ {k}

\* (mutant) the error set is among the dependencies of createRasterLayer
LayerDeps_WithErrorTiles ==
    <<selectedVariable, currentTimeIndex, filename, metadata, errorTiles>>

\* What the raster layer is rebuilt for: the dependencies of createRasterLayer
\* and of the "update raster layer" effect.  loadTile stands for its own
\* dependency, filename.
LayerDeps == <<selectedVariable, currentTimeIndex, filename, metadata>>

\* ------------------------------------------------------------------- Init
\* The state after the first render and the mount effect: the metadata
\* request has been started, nothing else has happened.
Init ==
    /\ token \in Tokens
    /\ location = "/"
    /\ page = "dashboard"
    /\ filename = "a.nc"
    /\ metadata = "null"
    /\ metaPhase = "first"
    /\ selectedVariable = "pr"
    /\ currentTimeIndex = 0
    /\ mapReady = FALSE
    /\ layerOn = FALSE
    /\ toCreate = {}
    /\ display = [c \in Coords |-> NoTile]
    /\ tileCache = [k \in Keys |-> NoEntry]
    /\ loadedTiles = {}
    /\ loadingTiles = {}
    /\ errorTiles = {}
    /\ closureLoadingTiles = {}
    /\ inflight = [r \in Requests |-> 0]
    /\ issued = 0
    /\ now = 0
    /\ last = NoCall
    /\ isPlaying = FALSE
    /\ timers = {}
    /\ input = <<>>
    /\ output = <<>>
    /\ data = [name |-> "a.nc", time |-> DefaultTime]
    /\ processedFiles = <<>>
    /\ selectedFile = "null"
    /\ error = "null"
    /\ listPhase = "loading"
    /\ removals = {}
    /\ cleared = {}
    /\ uploadedFiles = <<>>
    /\ calls = {}
    /\ completions = {}
    /\ posted = {}
    /\ nCalls = 0

\* ---------------------------------------------------------------- actions
\* "Update raster layer when parameters change": when a dependency changed in
\* this step the effect removes the old grid layer and adds a new one, which
\* asks createTile for every tile of the view; it returns early while there is
\* no map instance or no metadata.  Otherwise the layer stays, its queue of
\* createTile calls becomes q and its canvases show d.
LayerEffect(q, d) ==
    IF LayerDeps' # LayerDeps /\ mapReady /\ Usable(metadata')
    THEN /\ layerOn' = TRUE
         /\ toCreate' = Coords
         /\ display' = [c \in Coords |-> NoTile]
    ELSE /\ layerOn' = layerOn
         /\ toCreate' = q
         /\ display' = d

\* The animation effect, dependencies [isPlaying, metadata]: when one of them
\* changed in this step the cleanup of the previous run clears its interval
\* and, if (isPlaying && metadata), a new interval is set whose callback
\* reads the metadata of this render.
AnimationEffect ==
    timers' = IF <<isPlaying', metadata'>> = <<isPlaying, metadata>>
              THEN timers
              ELSE ClearInterval(timers) \cup
                   (IF isPlaying' /\ metadata' # "null"
                    THEN {[time |-> dimensionsTime(metadata')]} ELSE {})

\* The metadata request started by the mount effect, or the one started by
\* its .catch handler, settles.
MetaSettle(resp) ==
    /\ location = "/"
    /\ metaPhase \in {"first", "retry"}
    /\ LET r == fetchMetadata(token, resp)
           response == backend(token, resp)
       IN /\ metadata' = IF r.threw THEN metadata ELSE r.value
          /\ metaPhase' = IF r.threw /\ metaPhase = "first" THEN "retry" ELSE "done"
          /\ last' = [NoCall EXCEPT
                        !.op = "fetchMetadata",
                        !.key = <<metaPhase>>,
                        !.resp = IF response.sent THEN resp ELSE "none",
                        !.outcome = IF r.threw THEN "exception"
                                    ELSE IF ~response.defined THEN "no_response"
                                    ELSE IF ~response.ok THEN "not_ok"
                                    ELSE "ok"]
          /\ location' = IF response.redirect THEN "/login" ELSE location
    /\ UNCHANGED <<token, page, filename, viewVars, mapReady, tileCache, tileSets,
                   closureLoadingTiles, inflight, issued, clockVars>>
    /\ UNCHANGED <<isPlaying, pureVars, dashVars>>
    /\ AnimationEffect
    /\ LayerEffect(toCreate, display)

\* initMap finishes: the Leaflet map instance exists
MapInit ==
    /\ location = "/"
    /\ Usable(metadata)
    /\ ~mapReady
    /\ mapReady' = TRUE
    /\ last' = NoCall
    /\ UNCHANGED <<authVars, filename, metaVars, viewVars, tileCache, tileSets,
                   closureLoadingTiles, inflight, issued, clockVars>>
    /\ UNCHANGED <<playVars, pureVars, dashVars>>
    /\ LayerEffect(toCreate, display)

\* the time slider and the skip buttons
SetTimeIndex(t) ==
    /\ location = "/"
    /\ Usable(metadata)
    /\ t # currentTimeIndex
    /\ currentTimeIndex' = t
    /\ last' = NoCall
    /\ UNCHANGED <<authVars, filename, metaVars, selectedVariable, mapReady,
                   tileCache, tileSets, closureLoadingTiles, inflight, issued,
                   clockVars>>
    /\ UNCHANGED <<playVars, pureVars, dashVars>>
    /\ LayerEffect(toCreate, display)

\* The parent renders the viewer with another filename: useCallback builds a
\* new loadTile, which captures the loadingTiles of this render.
ChangeFile(f) ==
    /\ location = "/"
    /\ f # filename
    /\ filename' = f
    /\ closureLoadingTiles' = loadingTiles
    /\ last' = NoCall
    /\ UNCHANGED <<authVars, metaVars, viewVars, mapReady, tileCache, tileSets,
                   inflight, issued, clockVars>>
    /\ UNCHANGED <<playVars, pureVars, dashVars>>
    /\ LayerEffect(toCreate, display)

\* pan or zoom: a tile that had left the view enters it again and Leaflet
\* asks createTile for it
MoveMap(c) ==
    /\ location = "/"
    /\ layerOn
    /\ c \notin toCreate
    /\ UNCHANGED <<authVars, filename, metaVars, viewVars, mapReady,
                   tileCache, tileSets, closureLoadingTiles, inflight, issued,
                   clockVars, last>>
    /\ UNCHANGED <<playVars, pureVars, dashVars>>
    /\ LayerEffect(toCreate \cup {c}, [display EXCEPT ![c] = NoTile])

\* loadTile up to its await
loadTile(x, y, z, variable, timeIndex) ==
    LET tileKey == getTileKey(x, y, z, variable, timeIndex)
        cached == CacheLookup(tileKey, now)
        age == IF tileCache[tileKey] = NoEntry THEN -1
               ELSE now - tileCache[tileKey].timestamp
        call == [op |-> "loadTile", key |-> tileKey, outcome |-> "hit",
                 ret |-> cached, age |-> age, resp |-> "none"]
    IN IF cached # NoEntry
       THEN /\ last' = call
            /\ UNCHANGED <<tileSets, inflight, issued>>
       ELSE IF AlreadyLoading(tileKey)
       THEN /\ last' = [call EXCEPT !.outcome = "skip"]
            /\ UNCHANGED <<tileSets, inflight, issued>>
       ELSE IF ~backend(token, "none").sent
       THEN \* fetchTile throws at once and the catch block runs
            /\ loadingTiles' = DeleteKey(AddKey(loadingTiles, tileKey), tileKey)
            /\ errorTiles' = AddKey(DeleteKey(errorTiles, tileKey), tileKey)
            /\ last' = [call EXCEPT !.outcome = "not_sent"]
            /\ UNCHANGED <<loadedTiles, inflight, issued>>
       ELSE /\ issued < MaxRequests
            /\ loadingTiles' = AddKey(loadingTiles, tileKey)
            /\ errorTiles' = DeleteKey(errorTiles, tileKey)
            /\ inflight' = [inflight EXCEPT ![<<tileKey, filename>>] = @ + 1]
            /\ issued' = issued + 1
            /\ last' = [call EXCEPT !.outcome = "request"]
            /\ UNCHANGED loadedTiles

\* createTile, .then branch without tile data: "Render empty/loading tile"
PlaceholderFor(tileData) == "loading"

\* What createTile draws when the promise of loadTile is fulfilled with
\* tileData (NoEntry for null): renderTileToCanvas for tile data, which
\* throws on data without a tile matrix, so that the .catch handler draws the
\* error tile; the placeholder for null.
DrawTile(tileData) ==
    IF tileData = NoEntry THEN Drawn(PlaceholderFor(tileData))
    ELSE IF tileData.data = "payload" THEN Drawn("rendered")
    ELSE Drawn("error")

\* RasterLayer.createTile for one tile of the view
CreateTile(c) ==
    /\ location = "/"
    /\ layerOn
    /\ c \in toCreate
    /\ loadTile(c[2], c[3], c[1], selectedVariable, currentTimeIndex)
    /\ UNCHANGED <<authVars, filename, metaVars, viewVars, mapReady,
                   tileCache, closureLoadingTiles, clockVars>>
    /\ UNCHANGED <<playVars, pureVars, dashVars>>
    /\ LayerEffect(toCreate \ {c},
                   [display EXCEPT ![c] =
                       IF last'.outcome = "request"
                       THEN [status |-> "blank", awaits |-> <<last'.key, filename>>]
                       ELSE DrawTile(last'.ret)])

\* loadTile after its await: the request r settles with answer resp
Settle(r, resp) ==
    /\ location = "/"
    /\ inflight[r] > 0
    /\ inflight' = [inflight EXCEPT ![r] = @ - 1]
    /\ LET tileKey == r[1]
           tileResponse == fetchTile(token, resp)
           tileData == [timestamp |-> now, data |-> tileResponse.data, file |-> r[2]]
       IN IF ~tileResponse.threw
          THEN /\ tileCache' = [tileCache EXCEPT ![tileKey] = tileData]
               /\ loadingTiles' = DeleteKey(loadingTiles, tileKey)
               /\ loadedTiles' = AddKey(loadedTiles, tileKey)
               /\ UNCHANGED errorTiles
               /\ last' = [op |-> "settle", key |-> tileKey, outcome |-> "loaded",
                           ret |-> tileData, age |-> -1, resp |-> resp]
          ELSE /\ loadingTiles' = DeleteKey(loadingTiles, tileKey)
               /\ errorTiles' = AddKey(errorTiles, tileKey)
               /\ UNCHANGED <<tileCache, loadedTiles>>
               /\ last' = [op |-> "settle", key |-> tileKey, outcome |-> "failed",
                           ret |-> NoEntry, age |-> -1, resp |-> resp]
    /\ location' = IF backend(token, resp).redirect THEN "/login" ELSE location
    /\ UNCHANGED <<token, page, filename, metaVars, viewVars, mapReady,
                   closureLoadingTiles, issued, clockVars>>
    /\ UNCHANGED <<playVars, pureVars, dashVars>>
    /\ LET \* the canvases of the layer whose createTile call awaits a request
           \* r; the settling request is that of one of them, or that of a
           \* canvas the layer has dropped
           waiting == {c \in Coords : display[c].status = "blank"
                                       /\ display[c].awaits = r}
       IN \E who \in waiting \cup {<<>>} :
             /\ Cardinality(waiting) = inflight[r] => who \in waiting
             /\ LayerEffect(toCreate,
                    IF who \in waiting
                    THEN [display EXCEPT ![who] = DrawTile(last'.ret)]
                    ELSE display)

\* time passes
AdvanceClock(t) ==
    /\ location = "/"
    /\ t > now
    /\ now' = t
    /\ last' = NoCall
    /\ UNCHANGED <<authVars, filename, metaVars, viewVars, layerVars, tileCache,
                   tileSets, closureLoadingTiles, inflight, issued>>
    /\ UNCHANGED <<playVars, pureVars, dashVars>>

\* the play/pause button: setIsPlaying(!isPlaying)
TogglePlay ==
    /\ location = "/"
    /\ Usable(metadata)
    /\ isPlaying' = ~isPlaying
    /\ last' = [NoCall EXCEPT !.op = "toggle"]
    /\ UNCHANGED <<authVars, filename, metaVars, viewVars, mapReady, tileCache,
                   tileSets, closureLoadingTiles, inflight, issued, clockVars>>
    /\ UNCHANGED <<pureVars, dashVars>>
    /\ AnimationEffect
    /\ LayerEffect(toCreate, display)

\* the callback of a running interval
Tick(i) ==
    /\ location = "/"
    /\ i \in timers
    /\ currentTimeIndex' = NextTimeIndex(currentTimeIndex, i.time)
    /\ last' = [NoCall EXCEPT !.op = "tick"]
    /\ UNCHANGED <<authVars, filename, metaVars, selectedVariable, mapReady,
                   tileCache, tileSets, closureLoadingTiles, inflight, issued,
                   clockVars>>
    /\ UNCHANGED <<isPlaying, pureVars, dashVars>>
    /\ AnimationEffect
    /\ LayerEffect(toCreate, display)

Next ==
    \/ \E resp \in Responses : MetaSettle(resp)
    \/ MapInit
    \/ \E t \in TimeIndices : SetTimeIndex(t)
    \/ \E f \in Files : ChangeFile(f)
    \/ \E c \in Coords : MoveMap(c)
    \/ \E c \in Coords : CreateTile(c)
    \/ \E r \in Requests, resp \in Responses : Settle(r, resp)
    \/ \E t \in ClockTimes : AdvanceClock(t)

Spec == Init /\ [][Next]_vars

\* What runs without the user: a response that arrives is handled, the grid
\* layer makes the createTile calls it has queued, the metadata request
\* settles and initMap finishes.  The user's actions and the clock are under
\* no obligation.
Fairness ==
    /\ WF_vars(\E r \in Requests, resp \in Responses : Settle(r, resp))
    /\ WF_vars(\E c \in Coords : CreateTile(c))
    /\ WF_vars(\E resp \in Responses : MetaSettle(resp))
    /\ WF_vars(MapInit)

FairSpec == Spec /\ Fairness

\* The time controls: the viewer with its metadata request, the play/pause
\* button, the interval, the slider and skip buttons (the slider runs from 0
\* to metadata.dimensions.time - 1) and the file selection of the parent.
PlayNext ==
    \/ \E resp \in Responses : MetaSettle(resp)
    \/ TogglePlay
    \/ \E i \in timers : Tick(i)
    \/ \E t \in 0 .. dimensionsTime(metadata) - 1 : SetTimeIndex(t)
    \/ \E f \in Files : ChangeFile(f)

PlaySpec == Init /\ [][PlayNext]_vars

\* ------------------------------------------------------- reading the steps
\* a step in which createTile called loadTile: a queued tile was taken
IsLoadTileStep == toCreate' # toCreate /\ toCreate' \subseteq toCreate
\* a step in which a tile request settled
IsSettleStep == \E r \in Requests : inflight'[r] < inflight[r]
\* a step in which a tile request was sent
IsSendStep == \E r \in Requests : inflight'[r] > inflight[r]

\* ---------------------------------------------------------------- session
\* what the session actions leave alone: the state of the viewer
componentVars == <<filename, metaVars, viewVars, layerVars, tileCache, tileSets,
                   closureLoadingTiles, inflight, issued, clockVars, playVars, dashVars>>

\* A component of the dashboard calls backend(pathname) with the default
\* requireAuth; the server answers resp.  The script of the dashboard runs
\* until another document is loaded.
BackendCall(resp) ==
    /\ page = "dashboard"
    /\ input' = <<"backend", token, resp>>
    /\ output' = backend(token, resp)
    /\ location' = IF backend(token, resp).redirect THEN "/login" ELSE location
    /\ last' = [NoCall EXCEPT !.op = "backend",
                              !.resp = IF backend(token, resp).sent THEN resp ELSE "none"]
    /\ UNCHANGED <<token, page, componentVars>>

\* the Logout link of the dashboard: href="/login"
Logout ==
    /\ page = "dashboard"
    /\ location' = "/login"
    /\ last' = NoCall
    /\ UNCHANGED <<token, page, componentVars, pureVars>>

\* The document at window.location is loaded.  The login page removes the
\* user session in its mount effect.
PageLoad ==
    /\ \/ location = "/login" /\ page = "dashboard"
       \/ location = "/" /\ page = "login"
    /\ page' = IF location = "/login" THEN "login" ELSE "dashboard"
    /\ token' = IF location = "/login" THEN RemoveItem(token) ELSE token
    /\ last' = NoCall
    /\ UNCHANGED <<location, componentVars, pureVars>>

\* LoginPage.handleSubmit: the login request is answered; on response.ok the
\* access token is stored and the dashboard is opened
handleSubmit(ok, access_token) ==
    /\ page = "login"
    /\ location = "/login"
    /\ token' = IF ok THEN access_token ELSE token
    /\ location' = IF ok THEN "/" ELSE location
    /\ last' = [NoCall EXCEPT !.op = "login",
                              !.outcome = IF ok THEN "ok" ELSE "failed"]
    /\ UNCHANGED <<page, componentVars, pureVars>>

\* the user opens the dashboard by its address, logged in or not
OpenDashboard ==
    /\ page = "login"
    /\ location = "/login"
    /\ location' = "/"
    /\ last' = NoCall
    /\ UNCHANGED <<token, page, componentVars, pureVars>>

SessionNext ==
    \/ \E resp \in Responses : BackendCall(resp)
    \/ Logout
    \/ PageLoad
    \/ \E ok \in BOOLEAN, access_token \in AccessTokens : handleSubmit(ok, access_token)
    \/ OpenDashboard

SessionSpec == Init /\ [][SessionNext]_vars

\* calculateTileGrid is called with a viewport and a zoom level (each
\* behaviour of the pure functions is one call)
GridCall(bounds, zoom) ==
    /\ input = <<>>
    /\ input' = <<"calculateTileGrid", bounds, zoom>>
    /\ output' = calculateTileGrid(bounds, zoom)
    /\ UNCHANGED viewerVars

\* renderTileToCanvas colours one cell
PixelCall(value, stats, colorScale, opacity) ==
    /\ input = <<>>
    /\ input' = <<"renderTileToCanvas", value, stats, colorScale, opacity>>
    /\ output' = <<getColor(value, stats, colorScale),
                   renderPixel(value, stats, colorScale, opacity)>>
    /\ UNCHANGED viewerVars

\* renderRasterData of the canvas viewer colours one data point
InterpolateCall(value, min, max, colorScale) ==
    /\ input = <<>>
    /\ input' = <<"interpolateColor", value, [min |-> min, max |-> max], colorScale>>
    /\ output' = <<interpolateColor(value, min, max, colorScale)>>
    /\ UNCHANGED viewerVars

\* renderTileToCanvas draws one tile
TileCall(tile, stats, colorScale, opacity) ==
    /\ input = <<>>
    /\ input' = <<"renderTile", tile, stats, colorScale, opacity>>
    /\ output' = renderTileToCanvas(tile, stats, colorScale, opacity)
    /\ UNCHANGED viewerVars

PureNext ==
    \/ \E bounds \in ViewportBounds, zoom \in 0 .. MaxZoom : GridCall(bounds, zoom)
    \/ \E value \in Values, stats \in Statistics, colorScale \in ColorScales,
          opacity \in Opacities : PixelCall(value, stats, colorScale, opacity)
    \/ \E value \in Values, stats \in Statistics,
          colorScale \in ColorScales \cup {"blues"} :
             InterpolateCall(value, stats.min, stats.max, colorScale)
    \/ \E tile \in TileMatrices \cup {NoMatrix} :
          TileCall(tile, [min |-> 0, max |-> 10], "viridis", 80)

PureSpec == Init /\ [][PureNext]_vars

\* the key of tile c under the view the viewer shows
CurrentKey(c) == getTileKey(c[2], c[3], c[1], selectedVariable, currentTimeIndex)

\* a step in which backend() was called
IsBackendStep == last'.op = "backend"

\* a step in which the callback of an interval ran
IsTickStep == last'.op = "tick"

\* ------------------------------------------------------ the canvas viewer
\* The viewer that draws the dataset it is given as its data prop.  Its state
\* is currentTimeIndex and isPlaying; what it does not touch:
canvasRest == <<authVars, filename, metaVars, selectedVariable, layerVars,
                tileCache, tileSets, closureLoadingTiles, inflight, issued,
                clockVars, pureVars, fileVars, uploadVars>>

\* "Animation controls", dependencies [isPlaying, data.dimensions.time]: when
\* one of them changed in this step the cleanup clears the interval of the
\* previous run and, if isPlaying, a new interval is set.
CanvasAnimationEffect ==
    timers' = IF <<isPlaying', data'.time>> = <<isPlaying, data.time>>
              THEN timers
              ELSE ClearInterval(timers) \cup
                   (IF isPlaying' THEN {[time |-> data'.time]} ELSE {})

\* the play/pause button
CanvasTogglePlay ==
    /\ location = "/"
    /\ isPlaying' = ~isPlaying
    /\ last' = [NoCall EXCEPT !.op = "toggle"]
    /\ UNCHANGED <<canvasRest, currentTimeIndex, data>>
    /\ CanvasAnimationEffect

\* the callback of the interval: prev => (prev + 1) % data.dimensions.time
CanvasTick(i) ==
    /\ location = "/"
    /\ i \in timers
    /\ currentTimeIndex' = NextTimeIndex(currentTimeIndex, i.time)
    /\ last' = [NoCall EXCEPT !.op = "tick"]
    /\ UNCHANGED <<canvasRest, isPlaying, data>>
    /\ CanvasAnimationEffect

\* the skip-back button: setCurrentTimeIndex(0)
CanvasSkipBack ==
    /\ location = "/"
    /\ currentTimeIndex' = 0
    /\ last' = [NoCall EXCEPT !.op = "skipBack"]
    /\ UNCHANGED <<canvasRest, isPlaying, data>>
    /\ CanvasAnimationEffect

\* the skip-forward button: setCurrentTimeIndex(data.dimensions.time - 1)
CanvasSkipForward ==
    /\ location = "/"
    /\ currentTimeIndex' = data.time - 1
    /\ last' = [NoCall EXCEPT !.op = "skipForward"]
    /\ UNCHANGED <<canvasRest, isPlaying, data>>
    /\ CanvasAnimationEffect

\* the slider, min 0, max data.dimensions.time - 1, step 1
CanvasSlider(t) ==
    /\ location = "/"
    /\ t \in 0 .. data.time - 1
    /\ t # currentTimeIndex
    /\ currentTimeIndex' = t
    /\ last' = [NoCall EXCEPT !.op = "slider"]
    /\ UNCHANGED <<canvasRest, isPlaying, data>>
    /\ CanvasAnimationEffect

\* The user selects another file of the list: setSelectedFile(file).  The
\* dashboard renders the same viewer with data = selectedFile.data; the state
\* of the viewer stays as it is.
CanvasSelectFile(d) ==
    /\ location = "/"
    /\ d # data
    /\ data' = d
    /\ last' = [NoCall EXCEPT !.op = "select"]
    /\ UNCHANGED <<canvasRest, currentTimeIndex, isPlaying>>
    /\ CanvasAnimationEffect

CanvasNext ==
    \/ CanvasTogglePlay
    \/ \E i \in timers : CanvasTick(i)
    \/ CanvasSkipBack
    \/ CanvasSkipForward
    \/ \E t \in {0, 1, 2, 4} : CanvasSlider(t)
    \/ \E d \in Datasets : CanvasSelectFile(d)

CanvasSpec == Init /\ [][CanvasNext]_vars

\* ------------------------------------------------------- the file list
\* What the actions of the file list leave alone
listRest == <<token, page, filename, metaVars, viewVars, layerVars, tileCache,
              tileSets, closureLoadingTiles, inflight, issued, clockVars,
              playVars, pureVars, data, uploadVars>>

\* the names of a list of files
Names(files) == {files[i] : i \in 1 .. Len(files)}

\* processedFiles.filter((file) => file.name !== fileName)
Without(files, fileName) ==
    LET Keep(name) == name # fileName IN SelectSeq(files, Keep)

\* "Effect to auto-select a file when the list changes": the selection once
\* the effect has run for the list files and the selection sel
AutoSelect(files, sel) ==
    IF sel = "null"
    THEN IF Len(files) > 0 THEN files[1] ELSE "null"
    ELSE IF sel \in Names(files) THEN sel
    ELSE IF Len(files) > 0 THEN files[1] ELSE "null"

\* fetchFiles, started by the mount effect, settles: the list of the server
\* on an ok answer, the error message otherwise
ListSettle(resp) ==
    /\ location = "/"
    /\ listPhase = "loading"
    /\ listPhase' = "done"
    /\ LET response == backend(token, resp)
       IN /\ IF ~response.threw /\ response.defined /\ response.ok
             THEN /\ processedFiles' = ServerList
                  /\ error' = error
             ELSE /\ processedFiles' = processedFiles
                  /\ error' = "Error fetching data from the server"
          /\ location' = IF response.redirect THEN "/login" ELSE location
          /\ last' = [NoCall EXCEPT !.op = "list", !.resp = resp]
    /\ selectedFile' = AutoSelect(processedFiles', selectedFile)
    /\ UNCHANGED <<listRest, removals, cleared>>

\* a click on a file of the list: setSelectedFile(file)
SelectFile(f) ==
    /\ location = "/"
    /\ f \in Names(processedFiles)
    /\ f # selectedFile
    /\ selectedFile' = f
    /\ last' = [NoCall EXCEPT !.op = "select"]
    /\ UNCHANGED <<listRest, location, processedFiles, error, listPhase,
                   removals, cleared>>

\* A click on the remove button of a listed file: handleRemoveFile(fileName)
\* runs up to its await.  The call keeps the processedFiles of the render
\* the button belongs to.
RemoveClick(fileName) ==
    /\ location = "/"
    /\ fileName \in Names(processedFiles)
    /\ [fileName |-> fileName, processedFiles |-> processedFiles] \notin removals
    /\ removals' = removals \cup
                     {[fileName |-> fileName, processedFiles |-> processedFiles]}
    /\ last' = [NoCall EXCEPT !.op = "remove", !.key = <<fileName>>]
    /\ UNCHANGED <<listRest, location, processedFiles, selectedFile, error,
                   listPhase, cleared>>

\* The DELETE request of a handleRemoveFile call settles and the call runs
\* to its end: on an ok answer the list becomes the captured list without
\* the file, otherwise the error message is set.
RemoveSettle(call, resp) ==
    /\ location = "/"
    /\ call \in removals
    /\ removals' = removals \ {call}
    /\ LET response == backend(token, resp)
           ok == ~response.threw /\ response.defined /\ response.ok
       IN /\ IF ok
             THEN /\ processedFiles' = Without(call.processedFiles, call.fileName)
                  /\ error' = error
                  /\ cleared' = cleared \cup {call.fileName}
             ELSE /\ processedFiles' = processedFiles
                  /\ error' = "Error removing file"
                  /\ cleared' = cleared
          /\ location' = IF response.redirect THEN "/login" ELSE location
          /\ last' = [NoCall EXCEPT !.op = "removeSettle", !.key = <<call.fileName>>,
                                    !.outcome = IF ok THEN "ok" ELSE "failed",
                                    !.resp = resp]
    /\ selectedFile' = AutoSelect(processedFiles', selectedFile)
    /\ UNCHANGED <<listRest, listPhase>>

\* the answers to the request for the list and to a DELETE: a status and,
\* for the list, the array of files
ListResponses == {"ok_valid", "http_500", "http_401", "network_error"}

ListNext ==
    \/ \E resp \in ListResponses : ListSettle(resp)
    \/ \E f \in Names(ServerList) : SelectFile(f)
    \/ \E f \in Names(ServerList) : RemoveClick(f)
    \/ \E call \in removals, resp \in ListResponses : RemoveSettle(call, resp)

ListSpec == Init /\ [][ListNext]_vars

\* a step in which a handleRemoveFile call ran to its end
IsRemoveSettleStep == last'.op = "removeSettle"

\* ----------------------------------------------------- the upload section
\* What the actions of the upload section leave alone
uploadRest == <<token, page, filename, metaVars, viewVars, layerVars, tileCache,
                tileSets, closureLoadingTiles, inflight, issued, clockVars,
                playVars, pureVars, data, selectedFile, error, listPhase,
                removals, cleared>>

\* file.name.endsWith(".csv") ? "csv" : file.name.endsWith(".nc") ? "nc" : null
fileType(name) ==
    IF name \in {"x.csv"} THEN "csv"
    ELSE IF name \in {"y.nc", "a.nc", "b.nc"} THEN "nc"
    ELSE "null"

\* newUploads: an entry of status "uploading" for each file of a supported type
newUploads(files) ==
    LET Supported(name) == fileType(name) # "null"
        Entry(name) == [name |-> name, status |-> "uploading"]
        names == SelectSeq(files, Supported)
    IN [i \in 1 .. Len(names) |-> Entry(names[i])]

\* prev.map((f) => f.name === file.name ? {...f, status} : f)
SetStatus(prev, name, status) ==
    [i \in 1 .. Len(prev) |->
        IF prev[i].name = name THEN [prev[i] EXCEPT !.status = status] ELSE prev[i]]

\* The head of an iteration of the loop "for (const file of files)", up to
\* its await: the entries of the file's name are set to "uploading" and the
\* file is POSTed to /upload/data.  With no file left the call ends.
StartIteration(list, id, files) ==
    IF files = <<>>
    THEN /\ uploadedFiles' = list
         /\ calls' = {c \in calls : c.id # id}
         /\ posted' = posted
    ELSE /\ uploadedFiles' = SetStatus(list, Head(files), "uploading")
         /\ calls' = {c \in calls : c.id # id} \cup {[id |-> id, files |-> files]}
         /\ posted' = posted \cup {Head(files)}

\* handleDrop / handleFileSelect: processFiles(files) runs up to its first
\* await.  Without a stored token it alerts and returns.
processFiles(files) ==
    /\ location = "/"
    /\ nCalls < MaxCalls
    /\ nCalls' = nCalls + 1
    /\ IF token = NoToken
       THEN /\ last' = [NoCall EXCEPT !.op = "alert"]
            /\ UNCHANGED <<uploadedFiles, calls, posted>>
       ELSE /\ last' = [NoCall EXCEPT !.op = "processFiles", !.key = files]
            /\ StartIteration(uploadedFiles \o newUploads(files), nCalls + 1, files)
    /\ UNCHANGED <<uploadRest, location, processedFiles, completions>>

\* The POST of a call's current file is answered and the call runs to its
\* next await: on an ok answer the entries of the name become "processing"
\* and the completion is scheduled, otherwise they become "error"; then the
\* loop goes on with the next file.
UploadSettle(call, resp) ==
    /\ location = "/"
    /\ call \in calls
    /\ LET file == Head(call.files)
           uploadResponse == backend(token, resp)
           ok == ~uploadResponse.threw /\ uploadResponse.defined /\ uploadResponse.ok
       IN /\ StartIteration(SetStatus(uploadedFiles, file,
                                      IF ok THEN "processing" ELSE "error"),
                            call.id, Tail(call.files))
          /\ completions' = IF ok THEN completions \cup {[id |-> call.id, name |-> file]}
                            ELSE completions
          /\ location' = IF uploadResponse.redirect THEN "/login" ELSE location
          /\ last' = [NoCall EXCEPT !.op = "uploadSettle", !.key = <<file>>,
                                    !.outcome = IF ok THEN "ok" ELSE "failed",
                                    !.resp = resp]
    /\ UNCHANGED <<uploadRest, processedFiles, nCalls>>

\* The setTimeout callback of an uploaded file runs: the entries of the name
\* become "completed" and the file is appended to the processed files.
UploadComplete(done) ==
    /\ location = "/"
    /\ done \in completions
    /\ completions' = completions \ {done}
    /\ uploadedFiles' = SetStatus(uploadedFiles, done.name, "completed")
    /\ processedFiles' = Append(processedFiles, done.name)
    /\ last' = [NoCall EXCEPT !.op = "uploadComplete", !.key = <<done.name>>]
    /\ UNCHANGED <<uploadRest, location, calls, posted, nCalls>>

\* clearFinishedUploads: setUploadedFiles([])
clearFinishedUploads ==
    /\ location = "/"
    /\ uploadedFiles # <<>>
    /\ uploadedFiles' = <<>>
    /\ last' = [NoCall EXCEPT !.op = "clear"]
    /\ UNCHANGED <<uploadRest, location, processedFiles, calls, completions,
                   posted, nCalls>>

UploadNext ==
    \/ \E files \in UploadLists : processFiles(files)
    \/ \E call \in calls, resp \in ListResponses : UploadSettle(call, resp)
    \/ \E done \in completions : UploadComplete(done)
    \/ clearFinishedUploads

UploadSpec == Init /\ [][UploadNext]_vars

\* the changes of status an entry of the upload list may make in one step
StatusSteps ==
    {<<"uploading", "processing">>, <<"processing", "completed">>,
     <<"uploading", "error">>} \cup
    {<<st, st>> : st \in {"uploading", "processing", "completed", "error"}}

\* ------------------------------------------------------------------ claims

\* C1: single-flight.  For every tile key at most one network request is in
\* flight at any time: a loadTile call made while a request for the same key
\* is unsettled sends no second request.
C1_SingleFlight == \A k \in Keys : InFlightCount(k) <= 1

\* C2: no key is stuck as pending.  A loadTile call that returns null as
\* "already loading" does so only while a request for that key is in flight:
\* once every request for the key has settled, a call that finds no fresh
\* cache entry sends a new request.
C2_NoStuckPending ==
    (last.op = "loadTile" /\ last.outcome = "skip") => InFlightCount(last.key) > 0

C4_StalenessBoundary ==
    (last.op = "loadTile" /\ last.age >= 0) =>
        (last.outcome = "hit" <=> last.age <= TTL)

\* C5: failed fetch outcome.  When the request for a key with no cache entry
\* is answered HTTP 500, then after loadTile has completed the key is still
\* absent from the cache, is in the error set and is not in the loading set;
\* and the next loadTile call for the key (it is in the error set, it has no
\* cache entry, a token is stored) sends a new network request.
C5_FailedFetchOutcome ==
    [][ /\ (IsSettleStep /\ last'.resp = "http_500"
              /\ tileCache[last'.key] = NoEntry) =>
                 /\ tileCache'[last'.key] = NoEntry
                 /\ last'.key \in errorTiles'
                 /\ last'.key \notin loadingTiles'
        /\ (IsLoadTileStep /\ last'.key \in errorTiles
              /\ tileCache[last'.key] = NoEntry /\ token # NoToken) =>
                 IsSendStep ]_vars

\* C6: locality of fetch completion.  When a request for key k settles, with
\* success or failure, the cache entry of every other key, its membership in
\* the loaded, loading and error sets and the requests in flight for it are
\* unchanged.
C6_Locality ==
    [][ IsSettleStep =>
          \A j \in Keys \ {last'.key} :
             /\ tileCache'[j] = tileCache[j]
             /\ (j \in loadedTiles') = (j \in loadedTiles)
             /\ (j \in loadingTiles') = (j \in loadingTiles)
             /\ (j \in errorTiles') = (j \in errorTiles)
             /\ \A f \in Files : inflight'[<<j, f>>] = inflight[<<j, f>>] ]_vars
\* a request started under an older time index settles while a request for
\* another key is in flight and that key is in the loading set
C6_Witness ==
    /\ last.op = "settle"
    /\ last.key[2] # currentTimeIndex
    /\ \E j \in Keys \ {last.key} : InFlightCount(j) > 0 /\ j \in loadingTiles

\* C7: no automatic retry.  A tile request is sent only by a loadTile call
\* that createTile makes for a queued tile; a settling request, failed or
\* not, sends nothing, queues no createTile call and does not rebuild the
\* layer; createTile calls are queued only by a change of the time index or
\* of the file, or by a move of the map.
C7_NoAutomaticRetry ==
    [][ /\ IsSendStep => IsLoadTileStep
        /\ IsSettleStep =>
              /\ ~IsSendStep
              /\ toCreate' = toCreate
              /\ layerOn' = layerOn
        /\ (toCreate' \ toCreate # {}) =>
              \/ currentTimeIndex' # currentTimeIndex
              \/ filename' # filename
              \/ UNCHANGED <<tileCache, tileSets, inflight, issued, metaVars, now>> ]_vars
\* a request has failed, its key is in the error set, and nothing is queued
\* or in flight for it
C7_Witness ==
    /\ last.op = "settle"
    /\ last.outcome = "failed"
    /\ last.key \in errorTiles
    /\ InFlightCount(last.key) = 0
    /\ layerOn
    /\ toCreate = {}

\* C8: a malformed payload is a fetch failure.  A 2xx answer whose payload
\* has not the shape {tile, metadata} (another JSON value, or no JSON at all)
\* makes the fetch fail: the key is put in the error set and nothing is
\* stored in the cache under it.
C8_MalformedIsFailure ==
    (last.op = "settle" /\ last.resp \in {"ok_wrong_shape", "ok_not_json"}) =>
        /\ last.outcome = "failed"
        /\ last.key \in errorTiles
        /\ tileCache[last.key].data \notin {"json_wrong_shape", "response_object"}

\* C9: metadata fallback.  Whenever the metadata request has failed (a non-2xx
\* answer, no response, or an exception of the transport; here: the last
\* request the viewer made for it), the metadata is the hardcoded default once
\* the viewer has finished loading it.
C9_MetadataFallback ==
    (/\ last.op = "fetchMetadata"
     /\ metaPhase = "done"
     /\ last.outcome # "ok") =>
        metadata = "default"

\* C10: cache reads have no side effects.  A loadTile call that finds a fresh
\* entry returns exactly the stored entry, sends nothing and changes neither
\* the cache nor the loaded, loading and error sets; a second such call for
\* the key, following the first with no cache write and no clock change in
\* between, returns the same entry.
C10_ReadsHaveNoSideEffects ==
    [][ (IsLoadTileStep /\ last'.outcome = "hit") =>
          /\ last'.ret # NoEntry
          /\ last'.ret = tileCache[last'.key]
          /\ tileCache' = tileCache
          /\ UNCHANGED <<tileSets, inflight, issued>>
          /\ (last.op = "loadTile" /\ last.outcome = "hit"
                /\ last.key = last'.key) => last'.ret = last.ret ]_vars
\* a call was served from the cache and the tile is queued for a second call
C10_Witness ==
    /\ last.op = "loadTile"
    /\ last.outcome = "hit"
    /\ last.ret = tileCache[last.key]
    /\ <<last.key[3], last.key[4], last.key[5]>> \in toCreate

\* C11: animation wraparound.  While playing, every tick of the timer sets
\* the time index to (timeIndex + 1) mod timeCount, timeCount being
\* dimensions.time of the metadata shown: from timeCount - 1 (23 of 24) the
\* next tick yields 0; the index is neither clamped nor leaves the range.
C11_Wraparound ==
    [][ IsTickStep =>
          LET timeCount == dimensionsTime(metadata)
          IN /\ isPlaying
             /\ currentTimeIndex' = (currentTimeIndex + 1) % timeCount
             /\ currentTimeIndex = timeCount - 1 => currentTimeIndex' = 0
             /\ currentTimeIndex' \in 0 .. timeCount - 1 ]_vars
\* a tick has taken the index of the 24-step default metadata back to 0
C11_Witness ==
    /\ last.op = "tick"
    /\ isPlaying
    /\ metadata = "default"
    /\ currentTimeIndex = 0

\* C12: pause cancels the timer.  While isPlaying is false no interval is
\* running and no step is a tick; a step that changes the time index while
\* stopped is a step of the slider or of a skip button, which changes nothing
\* else of the player.
C12_PauseCancelsTimer ==
    [][ /\ ~isPlaying' => timers' = {}
        /\ ~isPlaying => ~IsTickStep
        /\ (~isPlaying /\ currentTimeIndex' # currentTimeIndex) =>
              /\ last' = NoCall
              /\ UNCHANGED <<isPlaying, timers, metadata, filename>> ]_vars
\* playback was paused after the interval had advanced the index
C12_Witness ==
    /\ last.op = "toggle"
    /\ ~isPlaying
    /\ timers = {}
    /\ currentTimeIndex = 2

\* C13: tile addresses are in range.  For every zoom z in 0 .. MaxZoom and
\* every viewport within latitude [-90, 90] and longitude [-180, 180], every
\* tile of calculateTileGrid has 0 <= x < 2^z and 0 <= y < 2^z and the given
\* z, no tile occurs twice, and the tiles are exactly the pairs (x, y) with x
\* between max(0, floor(west)) and min(2^z - 1, ceil(east)) and y between the
\* analogous ends, west, east, north and south taken in tile units
\* ((lon + 180) / 360 * 2^z and (90 - lat) / 180 * 2^z).
C13_TilesInRange ==
    (Len(input) = 3 /\ input[1] = "calculateTileGrid") =>
        LET b == input[2]
            z == input[3]
            n == 2 ^ z
            tiles == {output[i] : i \in 1 .. Len(output)}
            \* x >= floor(a / 360) iff 360 * (x + 1) > a;
            \* x <= ceil(a / 360) iff 360 * (x - 1) < a
            InX(x) == /\ 360 * (x + 1) > (b.west + 180) * n
                      /\ 360 * (x - 1) < (b.east + 180) * n
            InY(y) == /\ 180 * (y + 1) > (90 - b.north) * n
                      /\ 180 * (y - 1) < (90 - b.south) * n
        IN /\ \A t \in tiles : t.x \in 0 .. n - 1 /\ t.y \in 0 .. n - 1 /\ t.z = z
           /\ Cardinality(tiles) = Len(output)
           /\ tiles = {[x |-> x, y |-> y, z |-> z] :
                          x \in {u \in 0 .. n - 1 : InX(u)},
                          y \in {u \in 0 .. n - 1 : InY(u)}}
\* the whole world at the deepest zoom: both upper ends are clamped
C13_Witness ==
    /\ Len(input) = 3 /\ input[1] = "calculateTileGrid"
    /\ input[2] = [north |-> 90, south |-> -90, east |-> 180, west |-> -180]
    /\ input[3] = MaxZoom
    /\ Len(output) = (2 ^ MaxZoom) * (2 ^ MaxZoom)

\* the first and the last control-point colour of a sequence of stops
FirstColor(stops) == stops[1][2]
LastColor(stops) == stops[Len(stops)][2]
\* the colour a call returned, as numbers, and the stops of its scale
IsColorCall == Len(input) >= 4 /\ input[1] \in {"renderTileToCanvas", "interpolateColor"}
StopsOfCall ==
    IF input[1] = "renderTileToCanvas" THEN getColorStops(input[4])
    ELSE getColorScales(input[4])
IsNumbers(rgb) == \A i \in 1 .. 3 : ~rgb[i].nan
Numbers(rgb) == <<rgb[1].v, rgb[2].v, rgb[3].v>>

\* C14: colour range and endpoints.  For the scales viridis, plasma and
\* precipitation and every value v with stats.min <= v <= stats.max, where
\* stats.min < stats.max, the colour mapper (getColor of the tile viewer,
\* interpolateColor of the canvas viewer) returns three numbers within
\* 0 .. 255; for v = stats.min it returns the first control-point colour of
\* the scale and for v = stats.max the last.
C14_ColorRangeAndEndpoints ==
    (/\ IsColorCall
     /\ input[4] \in {"viridis", "plasma", "precipitation"}
     /\ input[3].min < input[3].max
     /\ input[3].min <= input[2] /\ input[2] <= input[3].max) =>
        LET rgb == output[1]
        IN /\ IsNumbers(rgb)
           /\ \A i \in 1 .. 3 : rgb[i].v \in 0 .. 255
           /\ input[2] = input[3].min => Numbers(rgb) = FirstColor(StopsOfCall)
           /\ input[2] = input[3].max => Numbers(rgb) = LastColor(StopsOfCall)
\* the top of the range on the precipitation scale of the tile viewer, whose
\* last branch ends at yellow
C14_Witness ==
    /\ IsColorCall
    /\ input[1] = "renderTileToCanvas"
    /\ input[4] = "precipitation"
    /\ input[3] = [min |-> 0, max |-> 10]
    /\ input[2] = 10
    /\ Numbers(output[1]) = <<255, 255, 0>>

\* C15: degenerate range.  When stats.max = stats.min the normalized value
\* is 0 for every cell value: the colour mapper returns numbers, none of them
\* not-a-number, and they are the first control-point colour of the scale.
C15_DegenerateRange ==
    (IsColorCall /\ input[3].min = input[3].max) =>
        /\ IsNumbers(output[1])
        /\ Numbers(output[1]) = FirstColor(StopsOfCall)

C17_BearerTokenOnEveryRequest ==
    [][ IsBackendStep =>
          /\ output'.sent =>
                /\ token # NoToken
                /\ output'.authorization = <<"Bearer", token>>
          /\ token = NoToken =>
                /\ ~output'.sent
                /\ ~output'.defined
                /\ ~output'.threw ]_vars
\* a request went out with the token of a second login
C17_Witness ==
    /\ last.op = "backend"
    /\ token = "tok2"
    /\ output.sent
    /\ output.authorization = <<"Bearer", "tok2">>

\* C18: 401 logs the session out.  When a request sent with a token is
\* answered 401, backend() sets the location to /login and returns ok =
\* false and data = null; when the login page is loaded the stored token is
\* removed; while no token is stored no request is sent; and a token is
\* stored again only by a login that succeeded, which opens the dashboard.
C18_UnauthorizedLogsOut ==
    [][ /\ (IsBackendStep /\ last'.resp = "http_401") =>
              /\ location' = "/login"
              /\ output'.defined /\ ~output'.ok /\ output'.data = "null"
        /\ (page' = "login" /\ page # "login") => token' = NoToken
        /\ (IsBackendStep /\ token = NoToken) => ~output'.sent
        /\ (token = NoToken /\ token' # NoToken) =>
              /\ page = "login"
              /\ last'.op = "login" /\ last'.outcome = "ok"
              /\ location' = "/" ]_vars
\* the login page has been loaded after a 401 and the token is gone
C18_Witness ==
    /\ page = "login"
    /\ token = NoToken
    /\ Len(input) = 3 /\ input[1] = "backend" /\ input[3] = "http_401"
    /\ output.redirect

\* C19: eventual consistency of renders.  When a request for the key of a
\* tile of the current layer has succeeded with a valid payload while the
\* canvas of the tile shows the loading placeholder or is still blank, the
\* canvas eventually shows something else: the rendered tile, or the tile is
\* replaced because the view changed.
C19_EventuallyRendered ==
    \A c \in Coords :
        (/\ layerOn
         /\ display[c].status \in {"loading", "blank"}
         /\ last.op = "settle" /\ last.outcome = "loaded" /\ last.resp = "ok_valid"
         /\ last.key = CurrentKey(c))
        ~> (display[c].status \notin {"loading", "blank"})

\* C20: error placeholder.  When the fetch of a tile fails (the request its
\* canvas awaits settles with a failure), the key is in the error set and the
\* canvas is drawn with the error placeholder, not with the placeholder of a
\* tile that is still loading.
C20_ErrorPlaceholder ==
    [][ \A c \in Coords :
          (/\ IsSettleStep /\ last'.outcome = "failed"
           /\ display[c].status = "blank"
           /\ display'[c].status \notin {"blank", "none"}) =>
              /\ last'.key \in errorTiles'
              /\ display'[c].status = "error" ]_vars

\* C21: fetch state transitions.  A loadTile call that sends a request puts
\* the key in the loading set and takes it out of the error set.  When the
\* request settles the key is taken out of the loading set and is added to
\* exactly one of the loaded set, together with a cache write, and the error
\* set, with no cache write: the handler takes one of its two branches, the
\* first leaving the error set and the second leaving the cache and the
\* loaded set as they are; the first for a valid 2xx answer, the second for
\* a non-2xx answer or a failure of the transport.
C21_FetchStateTransitions ==
    [][ /\ IsSendStep =>
              /\ last'.key \in loadingTiles'
              /\ last'.key \notin errorTiles'
        /\ IsSettleStep =>
              LET k == last'.key
                  ToLoaded == /\ loadedTiles' = loadedTiles \cup {k}
                              /\ tileCache'[k] = last'.ret /\ last'.ret # NoEntry
                              /\ tileCache'[k].timestamp = now
                              /\ errorTiles' = errorTiles
                  ToError == /\ errorTiles' = errorTiles \cup {k}
                             /\ tileCache' = tileCache
                             /\ loadedTiles' = loadedTiles
              IN /\ k \notin loadingTiles'
                 /\ last'.outcome \in {"loaded", "failed"}
                 /\ last'.outcome = "loaded" => ToLoaded
                 /\ last'.outcome = "failed" => ToError
                 /\ last'.resp = "ok_valid" => ToLoaded
                 /\ last'.resp \in {"http_500", "http_401", "network_error"} => ToError ]_vars
\* a request failed for a key that an earlier request had loaded
C21_Witness ==
    /\ last.op = "settle"
    /\ last.outcome = "failed"
    /\ last.key \in errorTiles
    /\ last.key \in loadedTiles
    /\ last.key \notin loadingTiles

\* C22: missing cells default to 0.  When the tile matrix lacks a row, or a
\* row lacks a cell, within the 256 x 256 grid, rendering does not fail, all
\* 65536 pixels are written, and the pixel of a missing cell is the pixel of
\* a cell of value 0; the pixel of a cell that is present is that of its value.
C22_MissingCellsDefaultToZero ==
    (Len(input) = 5 /\ input[1] = "renderTile" /\ input[2] \in TileMatrices) =>
        LET tile == input[2]
            Pixel(v) == renderPixel(v, input[3], input[4], input[5])
        IN /\ ~output.threw
           /\ Len(output.pixels) = 65536
           /\ \A i \in 0 .. 255, j \in 0 .. 255 :
                 output.pixels[256 * i + j + 1] =
                    IF i < tile.rows /\ j < tile.cols THEN Pixel(tile.value)
                    ELSE Pixel(0)
\* a tile of three rows of 200 cells: rows and cells are missing
C22_Witness ==
    /\ Len(input) = 5 /\ input[1] = "renderTile"
    /\ input[2] = [rows |-> 3, cols |-> 200, value |-> 7]
    /\ ~output.threw
    /\ output.pixels[1] # output.pixels[201]
    /\ output.pixels[201] = output.pixels[65536]

\* C23: the loading set matches the requests in flight.  In every reachable
\* state a tile key is in loadingTiles exactly when at least one network
\* request for that key is in flight, so the overlay reads "Ready"
\* (loadingTiles empty) only when no tile request is in flight.
C23_LoadingMatchesInFlight ==
    \A k \in Keys : (k \in loadingTiles) <=> (InFlightCount(k) > 0)
\* a request is in flight for a key that is not in the loading set: the
\* overlay would read "Ready"
C23_Counterexample ==
    \A k \in Keys : (InFlightCount(k) > 0) => (k \in loadingTiles)

\* C24: the error set is consistent with the cache.  In every reachable state
\* a key in errorTiles has no fresh cache entry, and when the request that
\* settled last was one for that key, it failed.
C24_ErrorSetConsistent ==
    \A k \in errorTiles :
        /\ ~(tileCache[k] # NoEntry /\ Fresh(tileCache[k], now))
        /\ (last.op = "settle" /\ last.key = k) => last.outcome = "failed"
\* a key counted as failed while its tile is freshly cached
C24_Counterexample ==
    \A k \in errorTiles : ~(tileCache[k] # NoEntry /\ Fresh(tileCache[k], now))

\* C25: no cross-dataset cache hits.  A cache entry that loadTile returns
\* while the viewer's filename is F was fetched from dataset F: after the
\* file changes from F to G, no entry fetched for F is returned under G.
C25_NoCrossDatasetHits ==
    (last.op = "loadTile" /\ last.outcome = "hit") => last.ret.file = filename

\* C26: the time index stays in range.  After any sequence of timer ticks,
\* skip-back, skip-forward, slider changes and switches of the displayed
\* dataset, 0 <= currentTimeIndex <= dimensions.time - 1 for the dataset the
\* viewer displays.
C26_TimeIndexInRange == currentTimeIndex \in 0 .. data.time - 1

\* C27: at most one animation timer.  Across play/pause toggles, ticks, time
\* controls and changes of the dataset at most one interval is active, and one
\* is active only while isPlaying is true: a cadence period brings one tick.
C27_AtMostOneTimer ==
    /\ Cardinality(timers) <= 1
    /\ timers # {} => isPlaying
\* the dataset was changed during playback and one interval is running, the
\* one set for the new dataset
C27_Witness ==
    /\ last.op = "select"
    /\ isPlaying
    /\ data.time = 3
    /\ timers = {[time |-> 3]}

\* C28: file removals are not lost under interleaving.  When a DELETE fails
\* the list stays as it is and the error message is set; and once no removal
\* is pending, no file whose DELETE succeeded is in the list (in particular
\* neither of two files whose removals were requested before either answer).
C28_RemovalsNotLost ==
    [][ IsRemoveSettleStep =>
          /\ last'.outcome = "failed" =>
                /\ processedFiles' = processedFiles
                /\ error' # "null"
          /\ removals' = {} => Names(processedFiles') \cap cleared' = {} ]_vars
\* no removal is pending and a file the server has deleted is in the list
C28_Counterexample ==
    removals = {} => Names(processedFiles) \cap cleared = {}

\* C29: upload status per entry.  Every entry of the upload list goes
\* uploading -> processing -> completed or uploading -> error, and an entry
\* that is completed or in error keeps its status, also when another file of
\* the same name is uploaded afterwards or at the same time.
C29_UploadStatusPerEntry ==
    [][ last'.op # "clear" =>
          /\ Len(uploadedFiles') >= Len(uploadedFiles)
          /\ \A i \in 1 .. Len(uploadedFiles) :
                <<uploadedFiles[i].status, uploadedFiles'[i].status>> \in StatusSteps
          /\ \A i \in Len(uploadedFiles) + 1 .. Len(uploadedFiles') :
                uploadedFiles'[i].status = "uploading" ]_vars
\* an entry that is completed or in error changes its status
C29_Counterexample ==
    [][ last'.op # "clear" =>
          \A i \in 1 .. Len(uploadedFiles) :
             (i <= Len(uploadedFiles')
                /\ uploadedFiles[i].status \in {"completed", "error"}) =>
                uploadedFiles'[i].status = uploadedFiles[i].status ]_vars

\* C30: unsupported files are never uploaded.  A file whose name ends in
\* neither .csv nor .nc is never POSTed to the backend, has no entry in the
\* upload list and is never in the processed files; and without a stored
\* token nothing is POSTed.
C30_UnsupportedNeverUploaded ==
    /\ \A name \in posted : fileType(name) # "null"
    /\ \A i \in 1 .. Len(uploadedFiles) : fileType(uploadedFiles[i].name) # "null"
    /\ \A i \in 1 .. Len(processedFiles) : fileType(processedFiles[i]) # "null"
    /\ token = NoToken => posted = {}
\* an unsupported file has been POSTed to the backend
C30_Counterexample == \A name \in posted : fileType(name) # "null"

====
